---- MODULE Spec2Model ----
(***************************************************************************)
(* Model of the incremental log importer of src/main.py: the sqlite store  *)
(* (class DB: tables "files" and "logs"), the importer (class Importer:    *)
(* list_files, parse_file, import_new_data) and the file system it reads.  *)
(* Strings are sequences of one-character strings, so that slicing,        *)
(* splitting and stripping are computed as Python computes them.           *)
(***************************************************************************)
EXTENDS Integers, Sequences, FiniteSets, TLC

(***************************************************************************)
(* Bounds of the model                                                     *)
(***************************************************************************)
MaxRuns == 2        \* importer runs started in one behaviour
MaxAppends == 2     \* chunks appended to log files in one behaviour
MaxTruncates == 1   \* truncations of a log file in one behaviour

(***************************************************************************)
(* Characters and generic string helpers                                   *)
(***************************************************************************)
NL == "\n"
BADBYTE == "\\xff"   \* a byte that is not valid UTF-8 (bytes.decode raises)

Digits == {"0", "1", "2", "3", "4", "5", "6", "7", "8", "9"}

DigitVal(c) ==
    CASE c = "0" -> 0 [] c = "1" -> 1 [] c = "2" -> 2 [] c = "3" -> 3
      [] c = "4" -> 4 [] c = "5" -> 5 [] c = "6" -> 6 [] c = "7" -> 7
      [] c = "8" -> 8 [] c = "9" -> 9

\* Python's str.isspace for the characters that occur in log lines
IsSpace(c) == c \in {" ", "\t", "\n", "\r"}

\* Python slice s[a:b] (0-indexed, end exclusive, clamped to the string)
Slice(s, a, b) ==
    LET lo == IF a > Len(s) THEN Len(s) ELSE a
        hi == IF b > Len(s) THEN Len(s) ELSE b
    IN  IF hi <= lo THEN << >> ELSE SubSeq(s, lo + 1, hi)

\* s[a:]
SliceFrom(s, a) == Slice(s, a, Len(s))

\* str.startswith
StartsWith(s, prefix) ==
    /\ Len(prefix) <= Len(s)
    /\ SubSeq(s, 1, Len(prefix)) = prefix

\* str.rfind(c): 0-indexed position of the last c, -1 when absent
RFind(s, c) ==
    LET hits == {i \in 1..Len(s) : s[i] = c}
    IN  IF hits = {} THEN -1
        ELSE (CHOOSE i \in hits : \A j \in hits : j <= i) - 1

\* str.find(c): 0-indexed position of the first c, -1 when absent
Find(s, c) ==
    LET hits == {i \in 1..Len(s) : s[i] = c}
    IN  IF hits = {} THEN -1
        ELSE (CHOOSE i \in hits : \A j \in hits : i <= j) - 1

\* str.strip(): leading and trailing whitespace removed
Strip(s) ==
    LET keep == {i \in 1..Len(s) : ~IsSpace(s[i])}
    IN  IF keep = {} THEN << >>
        ELSE LET first == CHOOSE i \in keep : \A j \in keep : i <= j
                 last  == CHOOSE i \in keep : \A j \in keep : j <= i
             IN  SubSeq(s, first, last)

\* str.partition(" "): <<before, separator, after>>
Partition(s) ==
    LET i == Find(s, " ")
    IN  IF i = -1 THEN << s, << >>, << >> >>
        ELSE << Slice(s, 0, i), << " " >>, SliceFrom(s, i + 1) >>

(***************************************************************************)
(* Paths: os.path.basename, pathlib's stem, the rsplit of parse_file       *)
(***************************************************************************)
\* os.path.basename(fp)
Basename(fp) == SliceFrom(fp, RFind(fp, "/") + 1)

\* PurePath.stem: the name without its last suffix
Stem(name) ==
    LET i == RFind(name, ".")
    IN  IF 0 < i /\ i < Len(name) - 1 THEN Slice(name, 0, i) ELSE name

\* faulty variant of RSplit1: the split at the first "_" (split("_", 1))
RSplitFirst(filename) ==
    LET i == Find(filename, "_")
    IN  IF i = -1 THEN << filename >>
        ELSE << Slice(filename, 0, i), SliceFrom(filename, i + 1) >>

\* faulty variant of RSplit1: always two parts, the second one empty when
\* there is no "_" (as partition("_") would give)
RSplitPadded(filename) ==
    LET i == RFind(filename, "_")
    IN  IF i = -1 THEN << filename, << >> >>
        ELSE << Slice(filename, 0, i), SliceFrom(filename, i + 1) >>

\* filename.rsplit("_", 1): a list of one or two strings
RSplit1(filename) ==
    LET i == RFind(filename, "_")
    IN  IF i = -1 THEN << filename >>
        ELSE << Slice(filename, 0, i), SliceFrom(filename, i + 1) >>

(***************************************************************************)
(* datetime.strptime(timestamp, "%m/%d/%Y %H:%M:%S").timestamp()           *)
(* The directives accept one or two digits, the blank of the format        *)
(* accepts any run of whitespace, and the whole string must be consumed.   *)
(***************************************************************************)
AllDigits(s) == \A i \in 1..Len(s) : s[i] \in Digits

\* value of a string of digits
RECURSIVE NumVal(_)
NumVal(s) ==
    IF s = << >> THEN 0
    ELSE 10 * NumVal(SubSeq(s, 1, Len(s) - 1)) + DigitVal(s[Len(s)])

\* %m: 1[0-2]|0[1-9]|[1-9]
MatchMonth(s) == AllDigits(s) /\ NumVal(s) \in 1..12
\* %d: 3[0-1]|[1-2]\d|0[1-9]|[1-9]| [1-9]
MatchDay(s) ==
    \/ AllDigits(s) /\ NumVal(s) \in 1..31
    \/ Len(s) = 2 /\ s[1] = " " /\ s[2] \in Digits /\ DigitVal(s[2]) \in 1..9
\* %H: 2[0-3]|[0-1]\d|\d
MatchHour(s) == AllDigits(s) /\ NumVal(s) \in 0..23
\* %M: [0-5]\d|\d
MatchMinute(s) == AllDigits(s) /\ NumVal(s) \in 0..59
\* %S: 6[0-1]|[0-5]\d|\d
MatchSecond(s) == AllDigits(s) /\ NumVal(s) \in 0..61
\* %Y: \d\d\d\d
MatchYear(s) == Len(s) = 4 /\ AllDigits(s)

DayVal(s) == IF s[1] = " " THEN DigitVal(s[2]) ELSE NumVal(s)

IsLeap(y) == (y % 4 = 0) /\ ((y % 100 # 0) \/ (y % 400 = 0))

DaysInMonth(y, m) ==
    IF m = 2 THEN (IF IsLeap(y) THEN 29 ELSE 28)
    ELSE IF m \in {4, 6, 9, 11} THEN 30 ELSE 31

\* days between 1970-01-01 and the civil date y-m-d
DaysFromCivil(y, m, d) ==
    LET yy  == IF m <= 2 THEN y - 1 ELSE y
        era == yy \div 400
        yoe == yy - era * 400
        mp  == IF m > 2 THEN m - 3 ELSE m + 9
        doy == (153 * mp + 2) \div 5 + d - 1
        doe == yoe * 365 + yoe \div 4 - yoe \div 100 + doy
    IN  era * 146097 + doe - 719468

\* Positions in ts (0-indexed) for the widths w = <<m, d, H, M, S>> of the
\* variable-width fields; the whitespace run takes what is left.
PosSlash1(w) == w[1]
PosSlash2(w) == w[1] + 1 + w[2]
PosYearEnd(w) == PosSlash2(w) + 1 + 4
PosSecond(ts, w) == Len(ts) - w[5]
PosMinute(ts, w) == PosSecond(ts, w) - 1 - w[4]
PosHour(ts, w) == PosMinute(ts, w) - 1 - w[3]

\* the format matches ts with the field widths w
MatchesWidths(ts, w) ==
    /\ PosHour(ts, w) - PosYearEnd(w) >= 1
    /\ MatchMonth(Slice(ts, 0, PosSlash1(w)))
    /\ ts[PosSlash1(w) + 1] = "/"
    /\ MatchDay(Slice(ts, PosSlash1(w) + 1, PosSlash2(w)))
    /\ ts[PosSlash2(w) + 1] = "/"
    /\ MatchYear(Slice(ts, PosSlash2(w) + 1, PosYearEnd(w)))
    /\ \A i \in (PosYearEnd(w) + 1)..PosHour(ts, w) : IsSpace(ts[i])
    /\ MatchHour(Slice(ts, PosHour(ts, w), PosHour(ts, w) + w[3]))
    /\ ts[PosMinute(ts, w)] = ":"
    /\ MatchMinute(Slice(ts, PosMinute(ts, w), PosMinute(ts, w) + w[4]))
    /\ ts[PosSecond(ts, w)] = ":"
    /\ MatchSecond(Slice(ts, PosSecond(ts, w), Len(ts)))

StrptimeMatches(ts) ==
    { w \in (1..2) \X (1..2) \X (1..2) \X (1..2) \X (1..2) : MatchesWidths(ts, w) }

\* the datetime constructor: raises ValueError outside these ranges
ValidDate(yr, mon, day, sec) ==
    yr >= 1 /\ day <= DaysInMonth(yr, mon) /\ sec <= 59

\* datetime.timestamp(), with the local zone at UTC
Timestamp(yr, mon, day, hr, mi, sec) ==
    DaysFromCivil(yr, mon, day) * 86400 + hr * 3600 + mi * 60 + sec

\* the date and time read from ts with the field widths w
StrptimeFields(ts, w) ==
    [mon |-> NumVal(Slice(ts, 0, PosSlash1(w))),
     day |-> DayVal(Slice(ts, PosSlash1(w) + 1, PosSlash2(w))),
     yr  |-> NumVal(Slice(ts, PosSlash2(w) + 1, PosYearEnd(w))),
     hr  |-> NumVal(Slice(ts, PosHour(ts, w), PosHour(ts, w) + w[3])),
     mi  |-> NumVal(Slice(ts, PosMinute(ts, w), PosMinute(ts, w) + w[4])),
     sec |-> NumVal(Slice(ts, PosSecond(ts, w), Len(ts)))]

StrptimeResult(d) ==
    IF ValidDate(d.yr, d.mon, d.day, d.sec)
    THEN [ok |-> TRUE, epoch |-> Timestamp(d.yr, d.mon, d.day, d.hr, d.mi, d.sec)]
    ELSE [ok |-> FALSE, epoch |-> 0]

\* [ok, epoch]: ok is FALSE where strptime or the datetime constructor
\* raises ValueError
StrptimeWith(ts, ms) ==
    IF ms = {} THEN [ok |-> FALSE, epoch |-> 0]
    ELSE StrptimeResult(StrptimeFields(ts, CHOOSE w \in ms : TRUE))

Strptime(ts) == StrptimeWith(ts, StrptimeMatches(ts))

(***************************************************************************)
(* The body of the for loop of parse_file, up to the call of add_log       *)
(***************************************************************************)
EmptyLineMarker == << "e", "m", "p", "t", "y", " ", "l", "i", "n", "e" >>

\* b_line.decode("utf-8"): raises UnicodeDecodeError on an invalid byte
Decode(b_line) ==
    IF \E i \in 1..Len(b_line) : b_line[i] = BADBYTE
    THEN [ok |-> FALSE, text |-> << >>]
    ELSE [ok |-> TRUE, text |-> b_line]

\* timestamp, epoch and log body of one decoded line
LineBody(line) ==
    IF StartsWith(line, << "[" >>)
    THEN LET timestamp == Slice(line, 1, 20)
             r == Strptime(timestamp)
         IN  [ok |-> r.ok, timestamp |-> timestamp, epoch |-> r.epoch,
              log |-> Strip(SliceFrom(line, 22))]
    ELSE [ok |-> TRUE, timestamp |-> EmptyLineMarker, epoch |-> 0,
          log |-> line]

\* the entry fragment of one raw line; err names the exception raised
ParseLine(b_line) ==
    LET d == Decode(b_line)
        b == LineBody(d.text)
        p == Partition(b.log)
    IN  IF ~d.ok
        THEN [err |-> "UnicodeDecodeError", timestamp |-> << >>, epoch |-> 0,
              who |-> << >>, what |-> << >>]
        ELSE IF ~b.ok
        THEN [err |-> "ValueError", timestamp |-> b.timestamp, epoch |-> 0,
              who |-> << >>, what |-> << >>]
        ELSE [err |-> "none", timestamp |-> b.timestamp, epoch |-> b.epoch,
              who |-> p[1], what |-> p[3]]

\* iteration of a binary file object: the bytes from position pos up to and
\* including the next newline, or up to the end of the file
NextLineEnd(content, pos) ==
    LET nls == {i \in (pos + 1)..Len(content) : content[i] = NL}
    IN  IF nls = {} THEN Len(content)
        ELSE CHOOSE i \in nls : \A j \in nls : i <= j

ReadLine(content, pos) == Slice(content, pos, NextLineEnd(content, pos))

(***************************************************************************)
(* The file system under LOGS_LOCATION and the data written to it          *)
(***************************************************************************)
LOGS_LOCATION == << "s", "a", "m", "p", "l", "e", "s" >>

\* samples/Orc_07.log
PathOrc == LOGS_LOCATION \o << "/", "O", "r", "c", "_", "0", "7", ".", "l", "o", "g" >>
\* samples/deathlog_9.txt
PathDeathlog ==
    LOGS_LOCATION \o << "/", "d", "e", "a", "t", "h", "l", "o", "g", "_", "9", ".", "t", "x", "t" >>
\* samples/deathlog_d/Boss_Raid_77.log
PathInDeathDir ==
    LOGS_LOCATION \o << "/", "d", "e", "a", "t", "h", "l", "o", "g", "_", "d", "/",
                        "B", "o", "s", "s", "_", "R", "a", "i", "d", "_", "7", "7",
                        ".", "l", "o", "g" >>
\* samples/notes.log
PathNoUnderscore == LOGS_LOCATION \o << "/", "n", "o", "t", "e", "s", ".", "l", "o", "g" >>

Paths == {PathOrc, PathDeathlog, PathInDeathDir, PathNoUnderscore}

\* the files the game server keeps writing to; the other two keep the
\* content they start with
Growing == {PathOrc, PathInDeathDir}

\* "[01/15/2024 13:45:02]  Orc hits\n"
ChunkStamped ==
    << "[", "0", "1", "/", "1", "5", "/", "2", "0", "2", "4", " ",
       "1", "3", ":", "4", "5", ":", "0", "2", "]", " ", " ",
       "O", "r", "c", " ", "h", "i", "t", "s", NL >>
\* "[01/15/24 13:45]  Orc\n": a bracketed line whose timestamp is malformed
ChunkBadStamp ==
    << "[", "0", "1", "/", "1", "5", "/", "2", "4", " ", "1", "3", ":", "4", "5",
       "]", " ", " ", "O", "r", "c", NL >>
\* "Gob dies\n"
ChunkPlain == << "G", "o", "b", " ", "d", "i", "e", "s", NL >>
\* "Orc ": the beginning of a line whose end is not written yet
ChunkPartial == << "O", "r", "c", " " >>
\* "\n"
ChunkNewline == << NL >>
\* a line holding a byte that is not UTF-8
ChunkBadByte == << "G", BADBYTE, NL >>

Chunks == {ChunkStamped, ChunkBadStamp, ChunkPlain, ChunkPartial, ChunkNewline,
           ChunkBadByte}

\* what the game server writes to each file: empty lines to one file, every
\* other kind of chunk to the other
ChunksFor(f) == IF f = PathOrc THEN Chunks \ {ChunkNewline} ELSE {ChunkNewline}

(***************************************************************************)
(* class DB: the tables and the statements run on them                     *)
(***************************************************************************)
\* rows of files with file_path = fp, in rowid order
FilesWhere(fs, fp) == SelectSeq(fs, LAMBDA r : r.file_path = fp)

\* INSERT INTO files(file_offset, file_path): id is the AUTOINCREMENT rowid
InsertFile(fs, offset, fp) ==
    Append(fs, [id |-> Len(fs) + 1, file_path |-> fp, file_offset |-> offset])

\* faulty variant of UpdateFile: the UPDATE without its WHERE clause
UpdateFileNoWhere(fs, offset, fp) ==
    [i \in DOMAIN fs |-> [fs[i] EXCEPT !.file_offset = offset]]

\* UPDATE files SET file_offset=? WHERE file_path=?
UpdateFile(fs, offset, fp) ==
    [i \in DOMAIN fs |->
        IF fs[i].file_path = fp THEN [fs[i] EXCEPT !.file_offset = offset]
        ELSE fs[i]]

\* faulty variant of get_file_offset: the id column selected instead of file_offset
get_file_offset_id(fs, fp) ==
    LET result == FilesWhere(fs, fp)
    IN  IF result # << >> THEN result[1].id ELSE 0

\* get_file_offset: the offset of the first row found, 0 when there is none
get_file_offset(fs, fp) ==
    LET result == FilesWhere(fs, fp)
    IN  IF result # << >> THEN result[1].file_offset ELSE 0

\* faulty variant of get_file_id_select: a WHERE clause that matches no row
get_file_id_select_none(fs, fp) == << >>

\* faulty variant of get_file_id_select: the file_offset column selected instead of id
get_file_id_select_offset(fs, fp) ==
    LET rows == FilesWhere(fs, fp)
    IN  IF rows # << >> THEN << rows[1].file_offset >> ELSE << >>

\* faulty variant of get_file_id_select: the SELECT without its WHERE clause
get_file_id_select_any(fs, fp) ==
    IF fs # << >> THEN << fs[1].id >> ELSE << >>

\* get_file_id, the SELECT: fetchone() as a tuple, << >> for None
get_file_id_select(fs, fp) ==
    LET rows == FilesWhere(fs, fp)
    IN  IF rows # << >> THEN << rows[1].id >> ELSE << >>

\* faulty variant of get_file_id_insert: the new file is inserted with offset 1
get_file_id_insert_one(fs, fp) == InsertFile(fs, 1, fp)

\* get_file_id, the INSERT of a file with offset 0
get_file_id_insert(fs, fp) == InsertFile(fs, 0, fp)

\* upsert_file, the SELECT COUNT(*)
upsert_file_count(fs, fp) == Len(FilesWhere(fs, fp))

\* upsert_file, the statement chosen by row_count
upsert_file_execute(fs, row_count, offset, fp) ==
    IF row_count = 0 THEN InsertFile(fs, offset, fp)
    ELSE UpdateFile(fs, offset, fp)

\* the value a column of INTEGER affinity stores for a text: the integer
\* when the text is a decimal literal, the text itself otherwise
IntegerAffinity(s) ==
    IF s # << >> /\ AllDigits(s)
    THEN [type |-> "integer", int |-> NumVal(s), text |-> << >>]
    ELSE [type |-> "text", int |-> 0, text |-> s]

\* add_log: INSERT INTO logs(...)
add_log(ls, entity_id, entity_name, player_name, datetime, epoch, log, file_id) ==
    Append(ls, [id |-> Len(ls) + 1,
                entity_id |-> IntegerAffinity(entity_id),
                entity_name |-> entity_name,
                player_name |-> player_name,
                datetime |-> datetime,
                epoch |-> epoch,
                log |-> log,
                file_id |-> file_id])

(***************************************************************************)
(* class Importer                                                          *)
(***************************************************************************)
blacklist == { << "d", "e", "a", "t", "h", "l", "o", "g" >> }

\* faulty variant of list_files: the blacklist matched against every component of
\* the path below the directory, not against the file name only
list_files_any_component(present) ==
    { file \in present :
        ~ \E blacklisted_name \in blacklist :
              \E i \in 1..Len(file) :
                  /\ file[i] = "/"
                  /\ StartsWith(SliceFrom(file, i), blacklisted_name) }

\* list_files: the regular files under the directory whose name does not
\* start with a blacklisted name
list_files(present) ==
    { file \in present :
        ~ \E blacklisted_name \in blacklist :
              StartsWith(Basename(file), blacklisted_name) }

\* rglob yields the files in directory order, which is arbitrary
RECURSIVE ListingOrders(_)
ListingOrders(S) ==
    IF S = {} THEN { << >> }
    ELSE UNION { { << f >> \o rest : rest \in ListingOrders(S \ {f}) } : f \in S }

\* faulty variant of Seek: the file is read from its beginning
SeekStart(offset) == 0

\* log_file.seek(offset): the position of the next read
Seek(offset) == offset

\* faulty variant of ShouldCommit: >= in place of >
ShouldCommitAlways(tell, offset) == tell >= offset

\* the test that guards the offset commit: log_file.tell() > offset
ShouldCommit(tell, offset) == tell > offset

(***************************************************************************)
(* State                                                                   *)
(***************************************************************************)
\* the invocations of the program that may exist at a time, and the one
\* that runs when invocations do not overlap
Procs == {1, 2}
Solo == {1}

VARIABLES
    present,      \* the regular files that exist under LOGS_LOCATION
    content,      \* the bytes of each file
    files,        \* table files
    logs,         \* table logs
    imp,          \* per importer process: position and local variables
    runs,         \* importer runs started
    appends,      \* chunks appended
    truncates,    \* truncations done
    log_src,      \* history: for each row of logs, the bytes it was read from
    returned_ids, \* history: per path, the ids get_file_id has returned
    last_stored,  \* history: per path, the offset last written (-1: none)
    failed        \* history: some pass has raised

vars == << present, content, files, logs, imp, runs, appends, truncates,
           log_src, returned_ids, last_stored, failed >>

envvars == << present, content, appends, truncates >>
histvars == << log_src, returned_ids, last_stored >>

IdleImp ==
    [pc |-> "idle", queue |-> << >>, fp |-> << >>, offset |-> 0,
     entity_name |-> << >>, entity_id |-> << >>, file_id |-> 0,
     row_count |-> 0, pos |-> 0, mark |-> 0, err |-> "none",
     committed |-> {}]

Init ==
    /\ present \in {Paths, Paths \ {PathNoUnderscore}}
    /\ content = [f \in Paths |-> IF f \in Growing THEN << >> ELSE ChunkStamped]
    /\ files = << >>
    /\ logs = << >>
    /\ imp = [p \in Procs |-> IdleImp]
    /\ runs = 0
    /\ appends = 0
    /\ truncates = 0
    /\ log_src = << >>
    /\ returned_ids = [f \in Paths |-> {}]
    /\ last_stored = [f \in Paths |-> -1]
    /\ failed = FALSE

AllIdle == \A p \in Procs : imp[p].pc = "idle"

(***************************************************************************)
(* The environment: the game server writes the log files                   *)
(***************************************************************************)
AppendChunk(f, c) ==
    /\ AllIdle
    /\ appends < MaxAppends
    /\ f \in present
    /\ content' = [content EXCEPT ![f] = @ \o c]
    /\ appends' = appends + 1
    /\ UNCHANGED << present, truncates, files, logs, imp, runs, histvars, failed >>

Truncate(f) ==
    /\ AllIdle
    /\ truncates < MaxTruncates
    /\ f \in present
    /\ content[f] # << >>
    /\ content' = [content EXCEPT ![f] = << >>]
    /\ truncates' = truncates + 1
    /\ UNCHANGED << present, appends, files, logs, imp, runs, histvars, failed >>

(***************************************************************************)
(* import_new_data and parse_file, one step per statement that touches     *)
(* the store or the file                                                   *)
(***************************************************************************)
\* an exception leaves the statement at hand
Raise(p, kind) ==
    imp' = [imp EXCEPT ![p] = [IdleImp EXCEPT !.pc = "raised", !.err = kind,
                                              !.queue = imp[p].queue,
                                              !.fp = imp[p].fp,
                                              !.offset = imp[p].offset]]

\* files = self.list_files(LOGS_LOCATION)
StartRun(p) ==
    /\ imp[p].pc = "idle"
    /\ runs < MaxRuns
    /\ \E order \in ListingOrders(list_files(present)) :
          imp' = [imp EXCEPT ![p] = [IdleImp EXCEPT !.pc = "loop", !.queue = order]]
    /\ runs' = runs + 1
    /\ failed' = (failed \/ imp'[p].pc = "raised")
    /\ UNCHANGED << envvars, files, logs, histvars >>

\* for file in files: offset = self.db.get_file_offset(file)
NextFile(p) ==
    /\ imp[p].pc = "loop"
    /\ imp[p].queue # << >>
    /\ LET file == Head(imp[p].queue)
       IN  imp' = [imp EXCEPT ![p].pc = "parse_file",
                              ![p].queue = Tail(imp[p].queue),
                              ![p].fp = file,
                              ![p].offset = get_file_offset(files, file)]
    /\ failed' = (failed \/ imp'[p].pc = "raised")
    /\ UNCHANGED << envvars, files, logs, runs, histvars >>

\* the loop of import_new_data ends: the run is complete
FinishRun(p) ==
    /\ imp[p].pc = "loop"
    /\ imp[p].queue = << >>
    /\ imp' = [imp EXCEPT ![p] = IdleImp]
    /\ failed' = (failed \/ imp'[p].pc = "raised")
    /\ UNCHANGED << envvars, files, logs, runs, histvars >>

\* [entity_name, entity_id] = filename.rsplit("_", 1)
SplitFilename(p) ==
    /\ imp[p].pc = "parse_file"
    /\ LET filename == Stem(Basename(imp[p].fp))
           parts == RSplit1(filename)
       IN  IF Len(parts) = 2
           THEN imp' = [imp EXCEPT ![p].pc = "get_file_id",
                                   ![p].entity_name = parts[1],
                                   ![p].entity_id = parts[2]]
           ELSE Raise(p, "filename")
    /\ failed' = (failed \/ imp'[p].pc = "raised")
    /\ UNCHANGED << envvars, files, logs, runs, histvars >>

\* get_file_id: the SELECT, and the return when a row is found
GetFileIdSelect(p) ==
    /\ imp[p].pc = "get_file_id"
    /\ LET row_id == get_file_id_select(files, imp[p].fp)
       IN  IF row_id # << >>
           THEN /\ imp' = [imp EXCEPT ![p].pc = "open", ![p].file_id = row_id[1]]
                /\ returned_ids' = [returned_ids EXCEPT ![imp[p].fp] = @ \cup {row_id[1]}]
           ELSE /\ imp' = [imp EXCEPT ![p].pc = "get_file_id_insert"]
                /\ UNCHANGED returned_ids
    /\ failed' = (failed \/ imp'[p].pc = "raised")
    /\ UNCHANGED << envvars, files, logs, runs, log_src, last_stored >>

\* get_file_id: the INSERT, commit and return cursor.lastrowid
GetFileIdInsert(p) ==
    /\ imp[p].pc = "get_file_id_insert"
    /\ files' = get_file_id_insert(files, imp[p].fp)
    /\ LET lastrowid == Len(files) + 1
       IN  /\ imp' = [imp EXCEPT ![p].pc = "open", ![p].file_id = lastrowid]
           /\ returned_ids' = [returned_ids EXCEPT ![imp[p].fp] = @ \cup {lastrowid}]
    /\ last_stored' = [last_stored EXCEPT ![imp[p].fp] = files'[Len(files')].file_offset]
    /\ failed' = (failed \/ imp'[p].pc = "raised")
    /\ UNCHANGED << envvars, logs, runs, log_src >>

\* open(fp, "rb") and log_file.seek(offset)
OpenAndSeek(p) ==
    /\ imp[p].pc = "open"
    /\ imp' = [imp EXCEPT ![p].pc = "read",
                          ![p].pos = Seek(imp[p].offset),
                          ![p].mark = Len(logs)]
    /\ failed' = (failed \/ imp'[p].pc = "raised")
    /\ UNCHANGED << envvars, files, logs, runs, histvars >>

\* open raises OSError
IOFails(p) ==
    /\ imp[p].pc = "open"
    /\ Raise(p, "io")
    /\ failed' = (failed \/ imp'[p].pc = "raised")
    /\ UNCHANGED << envvars, files, logs, runs, histvars >>

\* one iteration of the for loop: read a line, parse it, add_log
ProcessLine(p) ==
    /\ imp[p].pc = "read"
    /\ imp[p].pos < Len(content[imp[p].fp])
    /\ LET b_line == ReadLine(content[imp[p].fp], imp[p].pos)
           e == ParseLine(b_line)
       IN  IF e.err = "none"
           THEN /\ logs' = add_log(logs, imp[p].entity_id, imp[p].entity_name,
                                   e.who, e.timestamp, e.epoch, e.what,
                                   imp[p].file_id)
                /\ log_src' = Append(log_src,
                                     [path |-> imp[p].fp,
                                      start |-> imp[p].pos,
                                      end |-> imp[p].pos + Len(b_line)])
                /\ imp' = [imp EXCEPT ![p].pos = imp[p].pos + Len(b_line)]
           ELSE /\ Raise(p, IF e.err = "ValueError" THEN "timestamp" ELSE "decode")
                /\ UNCHANGED << logs, log_src >>
    /\ failed' = (failed \/ imp'[p].pc = "raised")
    /\ UNCHANGED << envvars, files, runs, returned_ids, last_stored >>

\* the line is read and parsed, and add_log raises sqlite3.Error
AddLogFails(p) ==
    /\ imp[p].pc = "read"
    /\ imp[p].pos < Len(content[imp[p].fp])
    /\ ParseLine(ReadLine(content[imp[p].fp], imp[p].pos)).err = "none"
    /\ Raise(p, "store")
    /\ failed' = (failed \/ imp'[p].pc = "raised")
    /\ UNCHANGED << envvars, files, logs, runs, histvars >>

\* the for loop ends: if (log_file.tell() > offset)
EndOfFile(p) ==
    /\ imp[p].pc = "read"
    /\ imp[p].pos >= Len(content[imp[p].fp])
    /\ imp' = [imp EXCEPT ![p].pc = IF ShouldCommit(imp[p].pos, imp[p].offset)
                                    THEN "upsert_file" ELSE "loop"]
    /\ failed' = (failed \/ imp'[p].pc = "raised")
    /\ UNCHANGED << envvars, files, logs, runs, histvars >>

\* upsert_file: SELECT COUNT(*)
UpsertCount(p) ==
    /\ imp[p].pc = "upsert_file"
    /\ imp' = [imp EXCEPT ![p].pc = "upsert_execute",
                          ![p].row_count = upsert_file_count(files, imp[p].fp)]
    /\ failed' = (failed \/ imp'[p].pc = "raised")
    /\ UNCHANGED << envvars, files, logs, runs, histvars >>

\* upsert_file: the UPDATE or INSERT, and commit
UpsertExecute(p) ==
    /\ imp[p].pc = "upsert_execute"
    /\ files' = upsert_file_execute(files, imp[p].row_count, imp[p].pos, imp[p].fp)
    /\ imp' = [imp EXCEPT ![p].pc = "loop",
                           ![p].committed = @ \cup {imp[p].fp}]
    /\ last_stored' = [last_stored EXCEPT ![imp[p].fp] = imp[p].pos]
    /\ failed' = (failed \/ imp'[p].pc = "raised")
    /\ UNCHANGED << envvars, logs, runs, log_src, returned_ids >>

\* nothing in import_new_data or in the main block catches: the process ends
Unhandled(p) ==
    /\ imp[p].pc = "raised"
    /\ imp' = [imp EXCEPT ![p] = IdleImp]
    /\ failed' = (failed \/ imp'[p].pc = "raised")
    /\ UNCHANGED << envvars, files, logs, runs, histvars >>

ImporterStep(p) ==
    \/ StartRun(p)
    \/ NextFile(p)
    \/ FinishRun(p)
    \/ SplitFilename(p)
    \/ GetFileIdSelect(p)
    \/ GetFileIdInsert(p)
    \/ OpenAndSeek(p)
    \/ IOFails(p)
    \/ ProcessLine(p)
    \/ AddLogFails(p)
    \/ EndOfFile(p)
    \/ UpsertCount(p)
    \/ UpsertExecute(p)
    \/ Unhandled(p)

Next ==
    \/ \E f \in Growing : \E c \in ChunksFor(f) : AppendChunk(f, c)
    \/ \E f \in Growing : Truncate(f)
    \/ \E p \in Solo : ImporterStep(p)

Spec == Init /\ [][Next]_vars

(***************************************************************************)
(* Two invocations of the program over the same store and the same files,  *)
(* their statements interleaved.  The files hold their lines from the      *)
(* start and the environment stays still.                                  *)
(***************************************************************************)
InitConc ==
    /\ present = Paths \ {PathNoUnderscore}
    /\ content = [f \in Paths |->
                    IF f = PathOrc THEN ChunkPlain
                    ELSE IF f = PathInDeathDir THEN ChunkNewline
                    ELSE ChunkStamped]
    /\ files = << >>
    /\ logs = << >>
    /\ imp = [p \in Procs |-> IdleImp]
    /\ runs = 0
    /\ appends = 0
    /\ truncates = 0
    /\ log_src = << >>
    /\ returned_ids = [f \in Paths |-> {}]
    /\ last_stored = [f \in Paths |-> -1]
    /\ failed = FALSE

NextConc == \E p \in Procs : ImporterStep(p)

SpecConc == InitConc /\ [][NextConc]_vars

(***************************************************************************)
(* Definitions the properties are stated with                              *)
(***************************************************************************)
\* the lines of a byte string: each ends with its newline, the last one may
\* have none
RECURSIVE SplitLines(_)
SplitLines(bytes) ==
    IF bytes = << >> THEN << >>
    ELSE LET nls == {i \in 1..Len(bytes) : bytes[i] = NL}
             e == IF nls = {} THEN Len(bytes)
                  ELSE CHOOSE i \in nls : \A j \in nls : i <= j
         IN  << SubSeq(bytes, 1, e) >> \o SplitLines(SubSeq(bytes, e + 1, Len(bytes)))

\* total length of the first n strings of a sequence of strings
RECURSIVE LenSum(_, _)
LenSum(ss, n) == IF n = 0 THEN 0 ELSE LenSum(ss, n - 1) + Len(ss[n])

\* the lines of bytes as pairs <<start, end>> of byte positions
LineRanges(bytes) ==
    { << s, e >> \in (0..Len(bytes)) \X (0..Len(bytes)) :
        /\ s < e
        /\ s = 0 \/ bytes[s] = NL
        /\ e = Len(bytes) \/ bytes[e] = NL
        /\ \A i \in (s + 1)..(e - 1) : bytes[i] # NL }

\* every line of the file from its stored offset on is parsed without error
ParsesFromOffset(f) ==
    LET lines == SplitLines(SliceFrom(content[f], get_file_offset(files, f)))
    IN  \A i \in 1..Len(lines) : ParseLine(lines[i]).err = "none"

\* a file the importer can process and that holds bytes not yet consumed
WellFormedWithNewData(f) ==
    /\ Len(RSplit1(Stem(Basename(f)))) = 2
    /\ Len(content[f]) > get_file_offset(files, f)
    /\ ParsesFromOffset(f)

FileScoped == {"filename", "timestamp", "decode", "io"}

(***************************************************************************)
(* Properties                                                              *)
(***************************************************************************)
\* C1: a file-scoped failure (malformed timestamp, filename without "_",
\* decode or I/O error) while well-formed files with new data are still to
\* come does not end the run: the importer goes on with the next file.
C1_PartialFailureIsolation ==
    [][\A p \in Procs :
         ( /\ imp[p].pc = "raised"
           /\ imp[p].err \in FileScoped
           /\ \E i \in 1..Len(imp[p].queue) : WellFormedWithNewData(imp[p].queue[i]) )
         => imp'[p].pc # "idle"]_vars

\* C2: when a pass over a file commits its offset, the entries it added are
\* exactly the lines of the bytes from the offset N it started from to the
\* end of the file, one entry per line and in order, and the stored offset
\* becomes the length of the file (N + M).
C2_ResumeCorrectness ==
    [][\A p \in Procs :
         (imp[p].pc = "upsert_execute" /\ imp'[p].pc = "loop") =>
            LET f == imp[p].fp
                N == imp[p].offset
                lines == SplitLines(SliceFrom(content[f], N))
                mark == imp[p].mark
            IN  /\ Len(logs') = mark + Len(lines)
                /\ \A i \in 1..Len(lines) :
                      LET e == ParseLine(lines[i])
                          row == logs'[mark + i]
                      IN  /\ row.player_name = e.who
                          /\ row.log = e.what
                          /\ row.datetime = e.timestamp
                          /\ row.epoch = e.epoch
                          /\ row.file_id = imp[p].file_id
                          /\ log_src'[mark + i] =
                               [path |-> f,
                                start |-> N + LenSum(lines, i - 1),
                                end |-> N + LenSum(lines, i)]
                /\ get_file_offset(files', f) = Len(content[f])]_vars

\* C2 witness: a pass that started from a stored offset N > 0 has committed
\* a larger offset and added entries.
C2_Witness ==
    \E p \in Procs :
        /\ imp[p].pc = "loop"
        /\ imp[p].fp # << >>
        /\ imp[p].offset > 0
        /\ imp[p].pos > imp[p].offset
        /\ get_file_offset(files, imp[p].fp) = imp[p].pos
        /\ Len(logs) > imp[p].mark

PassPcs == {"parse_file", "get_file_id", "get_file_id_insert", "open", "read"}

\* C3: during a pass over a file whose length equals the offset the pass
\* started from, no row of logs is added, no row of files changes, the
\* offset read back for the file stays the same and upsert_file is not
\* entered.
C3_IdempotentWithoutNewData ==
    [][\A p \in Procs :
         (imp[p].pc \in PassPcs /\ imp[p].offset = Len(content[imp[p].fp])) =>
            /\ logs' = logs
            /\ \A i \in DOMAIN files : files'[i] = files[i]
            /\ get_file_offset(files', imp[p].fp) = get_file_offset(files, imp[p].fp)
            /\ imp'[p].pc \notin {"upsert_file", "upsert_execute"}]_vars

\* C3 witness: a second or later run has passed over an already consumed,
\* non-empty file and skipped the commit.
C3_Witness ==
    \E p \in Procs :
        /\ imp[p].pc = "loop"
        /\ imp[p].fp # << >>
        /\ imp[p].offset > 0
        /\ imp[p].offset = Len(content[imp[p].fp])
        /\ imp[p].pos = imp[p].offset
        /\ runs >= 2

\* C4: every stored file_offset is a non-negative integer, and no step
\* lowers the offset of a row or the offset read back for a path.
C4_OffsetMonotonic ==
    [][/\ \A i \in DOMAIN files' : files'[i].file_offset \in Nat
       /\ \A i \in DOMAIN files :
            /\ i \in DOMAIN files'
            /\ files'[i].file_path = files[i].file_path
            /\ files'[i].file_offset >= files[i].file_offset
       /\ \A f \in Paths :
            get_file_offset(files', f) >= get_file_offset(files, f)]_vars

\* C4 witness: a pass has run over a file truncated below its stored offset.
C4_Witness ==
    \E p \in Procs :
        /\ imp[p].pc = "loop"
        /\ imp[p].fp # << >>
        /\ imp[p].offset > Len(content[imp[p].fp])
        /\ get_file_offset(files, imp[p].fp) = imp[p].offset

\* C5: when a pass over a file has raised (malformed timestamp, decode
\* error, I/O error, store error in add_log), the offset stored for the path
\* is the one the pass started from.
C5_NoPartialCommit ==
    \A p \in Procs :
        (imp[p].pc = "raised" /\ imp[p].err \in {"timestamp", "decode", "io", "store"})
        => get_file_offset(files, imp[p].fp) = imp[p].offset

\* C5 witness: a pass has raised on a malformed timestamp after it had
\* stored an entry for an earlier line of the same pass.
C5_Witness ==
    \E p \in Procs :
        /\ imp[p].pc = "raised"
        /\ imp[p].err = "timestamp"
        /\ \E i \in DOMAIN log_src :
              /\ log_src[i].path = imp[p].fp
              /\ log_src[i].start >= imp[p].offset

\* C6: on a file that was never truncated, every newline-terminated line
\* that lies within the bytes [0, stored offset) has a row of logs that was
\* read from exactly the bytes of that line.
C6_AtLeastOnce ==
    truncates = 0 =>
        \A f \in Paths :
            \A r \in LineRanges(content[f]) :
                (content[f][r[2]] = NL /\ r[2] <= get_file_offset(files, f)) =>
                    \E i \in DOMAIN log_src :
                        log_src[i] = [path |-> f, start |-> r[1], end |-> r[2]]

\* C7: no two rows of files have the same file_path.
C7_OneRecordPerPath ==
    \A i, j \in DOMAIN files :
        files[i].file_path = files[j].file_path => i = j

\* C7 witness: in a second run get_file_id and upsert_file have both been
\* called again for a path that already had a row.
C7_Witness ==
    \E p \in Procs :
        /\ runs >= 2
        /\ imp[p].pc = "loop"
        /\ imp[p].fp # << >>
        /\ imp[p].offset > 0
        /\ imp[p].pos > imp[p].offset
        /\ FilesWhere(files, imp[p].fp) # << >>

\* C8: get_file_id for a path that has a row returns the id of that row and
\* changes neither table; for a path without a row it inserts one row with
\* offset 0 and returns its id; all calls for a path return the same id.
C8_EnsureFileIdempotent ==
    [][/\ \A p \in Procs :
            /\ imp[p].pc = "get_file_id" =>
                 /\ files' = files
                 /\ logs' = logs
                 /\ FilesWhere(files, imp[p].fp) # << >> =>
                      /\ imp'[p].pc = "open"
                      /\ imp'[p].file_id = FilesWhere(files, imp[p].fp)[1].id
            /\ imp[p].pc = "get_file_id_insert" =>
                 /\ files' = Append(files, [id |-> imp'[p].file_id,
                                            file_path |-> imp[p].fp,
                                            file_offset |-> 0])
                 /\ logs' = logs
                 /\ \A i \in DOMAIN files : files[i].id # imp'[p].file_id
       /\ \A f \in Paths : Cardinality(returned_ids'[f]) <= 1]_vars

\* C8 witness: get_file_id has returned for a path whose offset had been
\* advanced before the call.
C8_Witness ==
    \E p \in Procs :
        /\ imp[p].pc = "open"
        /\ get_file_offset(files, imp[p].fp) > 0
        /\ returned_ids[imp[p].fp] = {imp[p].file_id}

\* C9: get_file_offset returns the offset last written for the path, 0 when
\* none was ever written, and changes neither table.
C9_GetOffset ==
    [][\A p \in Procs :
         (imp[p].pc = "loop" /\ imp'[p].pc = "parse_file") =>
            /\ files' = files
            /\ logs' = logs
            /\ imp'[p].offset =
                 IF last_stored[imp'[p].fp] = -1 THEN 0
                 ELSE last_stored[imp'[p].fp]]_vars

\* C9 witness: get_file_offset has returned an offset written by an earlier
\* upsert_file.
C9_Witness ==
    \E p \in Procs :
        /\ imp[p].pc = "parse_file"
        /\ imp[p].offset > 0
        /\ last_stored[imp[p].fp] = imp[p].offset

\* C10: samples/deathlog_9.txt is never listed, never the file at hand, has
\* no row in files and no row of logs is read from it, while
\* samples/deathlog_d/Boss_Raid_77.log is listed by every run that finds it.
C10_Blacklist ==
    [][/\ \A p \in Procs :
            /\ imp'[p].fp # PathDeathlog
            /\ \A i \in 1..Len(imp'[p].queue) : imp'[p].queue[i] # PathDeathlog
            /\ (imp[p].pc = "idle" /\ imp'[p].pc = "loop" /\ PathInDeathDir \in present)
                 => \E i \in 1..Len(imp'[p].queue) : imp'[p].queue[i] = PathInDeathDir
       /\ \A i \in DOMAIN files' : files'[i].file_path # PathDeathlog
       /\ \A i \in DOMAIN log_src' : log_src'[i].path # PathDeathlog]_vars

\* C10 witness: a row of logs has been read from the file inside the
\* directory deathlog_d, and its offset is stored.
C10_Witness ==
    /\ PathDeathlog \in present
    /\ content[PathDeathlog] # << >>
    /\ \E i \in DOMAIN log_src : log_src[i].path = PathInDeathDir
    /\ get_file_offset(files, PathInDeathDir) > 0

AfterSplitPcs ==
    {"get_file_id", "get_file_id_insert", "open", "read", "upsert_file",
     "upsert_execute"}

\* the rows of logs read from file f
RowsFrom(f) == {i \in DOMAIN logs : log_src[i].path = f}

\* C11 as stated: every row read from a file carries the entity name and
\* the entity id of its filename as the two texts the filename splits into.
C11_StoredPairExact ==
    /\ \A i \in RowsFrom(PathOrc) :
         /\ logs[i].entity_name = << "O", "r", "c" >>
         /\ logs[i].entity_id.type = "text"
         /\ logs[i].entity_id.text = << "0", "7" >>
    /\ \A i \in RowsFrom(PathInDeathDir) :
         /\ logs[i].entity_name = << "B", "o", "s", "s", "_", "R", "a", "i", "d" >>
         /\ logs[i].entity_id.type = "text"
         /\ logs[i].entity_id.text = << "7", "7" >>

\* C11 amended: the name and id parse_file derives make up the stem again
\* around one "_" and the id holds no "_"; every row read from the file
\* carries the name as text and the id as the column entity_id stores it:
\* the integer 7 for Orc_07, the integer 77 for Boss_Raid_77.
C11_FilenameDerivation ==
    /\ \A p \in Procs :
         imp[p].pc \in AfterSplitPcs =>
            /\ imp[p].entity_name \o << "_" >> \o imp[p].entity_id
                 = Stem(Basename(imp[p].fp))
            /\ \A k \in 1..Len(imp[p].entity_id) : imp[p].entity_id[k] # "_"
    /\ \A i \in RowsFrom(PathOrc) :
         /\ logs[i].entity_name = << "O", "r", "c" >>
         /\ logs[i].entity_id = [type |-> "integer", int |-> 7, text |-> << >>]
    /\ \A i \in RowsFrom(PathInDeathDir) :
         /\ logs[i].entity_name = << "B", "o", "s", "s", "_", "R", "a", "i", "d" >>
         /\ logs[i].entity_id = [type |-> "integer", int |-> 77, text |-> << >>]

\* C11 witness: rows have been stored from Orc_07.log and from
\* Boss_Raid_77.log, whose stem holds two "_".
C11_Witness ==
    /\ RowsFrom(PathOrc) # {}
    /\ RowsFrom(PathInDeathDir) # {}

\* C12: on a file that was never truncated, every row read from a line that
\* consists of a newline only has the empty string as actor (player_name)
\* and the empty string as message (log).
C12_NewlineOnlyLine ==
    \A i \in DOMAIN logs :
        LET src == log_src[i]
        IN  ( /\ truncates = 0
              /\ src.end = src.start + 1
              /\ content[src.path][src.end] = NL )
            => (logs[i].player_name = << >> /\ logs[i].log = << >>)

\* C13: the message (log) of every row is empty or ends with a character
\* that is neither whitespace nor a line terminator.
C13_MessageTrimmed ==
    \A i \in DOMAIN logs :
        logs[i].log = << >> \/ ~IsSpace(logs[i].log[Len(logs[i].log)])

\* C14: a row is added to logs only when every line of the file from the
\* offset of the pass on has been read and parsed; so when a pass raises on
\* a malformed timestamp, logs holds no row added since the pass opened
\* the file.
C14_ReadCommitSeparation ==
    [][\A p \in Procs :
         /\ (imp[p].pc = "read" /\ logs' # logs) =>
               LET lines == SplitLines(SliceFrom(content[imp[p].fp], imp[p].offset))
               IN  \A k \in 1..Len(lines) : ParseLine(lines[k]).err = "none"
         /\ (imp[p].pc = "read" /\ imp'[p].pc = "raised" /\ imp'[p].err = "timestamp")
               => Len(logs) = imp[p].mark]_vars

\* C15: within a run the offset of a path is written at most once, only
\* when the file has been read to its end and with no add_log for that path
\* afterwards; every store write concerns the file being processed, and the
\* importer changes file only between passes.
C15_CommitOrdering ==
    [][\A p \in Procs :
         LET cur == imp[p]
         IN  /\ (cur.pc = "upsert_execute" /\ imp'[p] # cur) =>
                   /\ cur.fp \notin cur.committed
                   /\ cur.pos = Len(content[cur.fp])
             /\ (cur.pc \notin {"idle", "raised"} /\ logs' # logs) =>
                   /\ cur.pc = "read"
                   /\ cur.fp \notin cur.committed
                   /\ Len(logs') = Len(logs) + 1
                   /\ log_src'[Len(logs')].path = cur.fp
                   /\ logs'[Len(logs')].file_id = cur.file_id
             /\ (cur.pc \notin {"idle", "raised"} /\ files' # files) =>
                   /\ cur.pc \in {"get_file_id_insert", "upsert_execute"}
                   /\ \A j \in DOMAIN files' :
                         (j \notin DOMAIN files \/ files'[j] # files[j])
                            => files'[j].file_path = cur.fp
             /\ imp'[p].fp # cur.fp => cur.pc \in {"loop", "raised"}]_vars

C15_Witness ==
    \E p \in Procs :
        /\ imp[p].pc = "read"
        /\ imp[p].committed # {}
        /\ imp[p].fp \notin imp[p].committed
        /\ Len(logs) > imp[p].mark

\* C16: every row of logs carries the id of a row of files, and that row's
\* file_path is the path of the file the line was read from; as this holds
\* in every state, the files row is there before the first entry of the file.
C16_ReferentialIntegrity ==
    \A i \in DOMAIN logs :
        \E j \in DOMAIN files :
            /\ files[j].id = logs[i].file_id
            /\ files[j].file_path = log_src[i].path

C16_Witness ==
    \E i, k \in DOMAIN logs :
        /\ log_src[i].path = PathOrc
        /\ log_src[k].path = PathInDeathDir
        /\ logs[i].file_id # logs[k].file_id

\* C17: a pass over a file whose stored offset lies beyond the end of the
\* file adds no row to logs, changes no row of files, and ends without
\* raising once the file is open.
C17_OffsetBeyondEof ==
    [][\A p \in Procs :
         (/\ imp[p].pc \in PassPcs
          /\ imp[p].offset > Len(content[imp[p].fp]))
         => /\ logs' = logs
            /\ files' = files
            /\ imp[p].pc = "read" => imp'[p].pc \in {"read", "loop"}
            /\ imp'[p].pc = "raised" => imp'[p].err = "io"]_vars

C17_Witness ==
    \E p \in Procs :
        /\ imp[p].pc = "loop"
        /\ imp[p].fp \in Paths
        /\ content[imp[p].fp] # << >>
        /\ imp[p].offset > Len(content[imp[p].fp])
        /\ imp[p].pos = imp[p].offset
        /\ Len(logs) = imp[p].mark
        /\ get_file_offset(files, imp[p].fp) = imp[p].offset

\* C18: under SpecConc, where two importer runs interleave their get_file_id
\* and upsert_file statements on one store, files holds as many rows as it
\* holds distinct paths.
C18_UniquePathConcurrent ==
    Cardinality({files[j].file_path : j \in DOMAIN files}) = Len(files)

\* C19: as long as no file was truncated and no pass has raised, every
\* newline-terminated line that lies within the bytes [0, stored offset) has
\* exactly one row of logs read from bytes of that line.
C19_WholeLineEntries ==
    (truncates = 0 /\ ~failed) =>
        \A f \in Paths :
            \A r \in LineRanges(content[f]) :
                (content[f][r[2]] = NL /\ r[2] <= get_file_offset(files, f)) =>
                    Cardinality({i \in DOMAIN log_src :
                                    /\ log_src[i].path = f
                                    /\ log_src[i].start < r[2]
                                    /\ log_src[i].end > r[1]}) = 1

\* the paths whose stem holds no "_"
NoUnderscorePaths == {f \in Paths : Find(Stem(Basename(f)), "_") = -1}

\* C20: a file whose stem holds no "_" never has a row in files, never has
\* a row of logs read from it, never has an offset written and never gets an
\* id from get_file_id, in the run that meets it and in every later one.
C20_NoUnderscoreRejected ==
    \A f \in NoUnderscorePaths :
        /\ FilesWhere(files, f) = << >>
        /\ RowsFrom(f) = {}
        /\ last_stored[f] = -1
        /\ returned_ids[f] = {}

C20_Witness ==
    \E p \in Procs :
        /\ imp[p].pc = "raised"
        /\ imp[p].err = "filename"
        /\ imp[p].fp = PathNoUnderscore
        /\ runs >= 2
        /\ files # << >>

====
